---- MODULE Spec2Model ----
(***************************************************************************)
(* A model of ao3list.py: the command-line run (main), the fetch / merge / *)
(* filter / sort pipeline (Fetcher.fetch_all), the list-item parser        *)
(* (Fetcher._parse_group) and the five formatters.                         *)
(*                                                                         *)
(* Python strings whose length or characters matter (record names, record  *)
(* urls, item texts, output lines) are sequences of one-character strings. *)
(* The characters are those a string literal can hold: U+0001 to U+00FF    *)
(* without the grave accent U+0060.                                        *)
(***************************************************************************)
EXTENDS Integers, Sequences, FiniteSets, TLC

VARIABLES
    argv,        \* the command line: [flags, category, min_works, file, output]
    web,         \* what the site serves: group name -> list of records on its page
    pc,          \* position of main: start, fetch, open, format, done
    verbosity,   \* Fetcher.verbosity
    groups,      \* main's `groups`: the group names handed to fetch_all
    idx,         \* number of completed iterations of fetch_all's loop
    gets,        \* the GETs issued so far, in order (urls)
    items,       \* fetch_all's accumulating `items`
    fandoms,     \* main's `fandoms`: <<>> is None, <<l>> the returned list l
    failedAt,    \* 0, or the position of the category whose fetch raised
    fp,          \* main's `fp`: "none", "stdout" or "file"
    fileState,   \* the --file target: unopened, open, closed
    fileContent, \* what the --file target holds
    stdout,      \* everything printed or written to standard output
    written,     \* number of chunks the formatter has written
    exit,        \* "none" while running, "0" or "1" returned, "raised" on an uncaught exception
    group,       \* _parse_group: the children of the group container
    child,       \* _parse_group: number of children consumed
    parsed,      \* _parse_group: its `items`
    perr,        \* _parse_group: the exception raised, [type, detail]; type "none" when none
    ppc          \* _parse_group: idle, loop, returned, raised

vars == <<argv, web, pc, verbosity, groups, idx, gets, items, fandoms, failedAt,
          fp, fileState, fileContent, stdout, written, exit,
          group, child, parsed, perr, ppc>>

mainVars == <<argv, web, pc, verbosity, groups, idx, gets, items, fandoms, failedAt,
              fp, fileState, fileContent, stdout, written, exit>>
parseVars == <<group, child, parsed, perr, ppc>>

----------------------------------------------------------------------------
(* Bounds of the model *)

MaxPage == 2      \* records on one served page
MaxCats == 3      \* length of the --category list
MaxMerged == 2    \* length of the --category list in the runs that vary the pages
MaxFlags == 2     \* number of -q / -v flags on the command line
MaxRows == 2      \* records handed to the table formatter
MaxText == 5      \* characters of a list item's text
MaxChildren == 2  \* children of a group container

RECURSIVE SeqsUpTo(_, _)
SeqsUpTo(S, n) ==
    IF n = 0 THEN {<<>>}
    ELSE LET shorter == SeqsUpTo(S, n - 1)
         IN shorter \cup {Append(s, x) : s \in {t \in shorter : Len(t) = n - 1}, x \in S}

Range(s) == {s[i] : i \in DOMAIN s}

----------------------------------------------------------------------------
(* Constants of the program *)

_base == <<"h","t","t","p","s",":","/","/","a","r","c","h","i","v","e","o","f",
           "o","u","r","o","w","n",".","o","r","g">>

\* _group_names.keys(), in dict order.
CategoryOrder ==
    <<"anime", "books", "cartoons", "celebrities", "movies", "music", "other",
      "theater", "tv", "videogames">>
Categories == Range(CategoryOrder)

_group_names(category) ==
    CASE category = "anime" -> "Anime%20*a*%20Manga"
      [] category = "books" -> "Books%20*a*%20Literature"
      [] category = "cartoons" -> "Cartoons%20*a*%20Comics%20*a*%20Graphic%20Novels"
      [] category = "celebrities" -> "Celebrities%20*a*%20Real People"
      [] category = "movies" -> "Movies"
      [] category = "music" -> "Music%20*a*%20Bands"
      [] category = "other" -> "Other%20Media"
      [] category = "theater" -> "Theater"
      [] category = "tv" -> "TV%20Shows"
      [] category = "videogames" -> "Video%20Games"

GroupNames == {_group_names(c) : c \in Categories}

\* self._base + self._media_path.format(group): the url as a sequence of pieces.
Url(g) == _base \o <<"/media/", g, "/fandoms">>

----------------------------------------------------------------------------
(* str() and int() on decimal numerals *)

DigitChars == <<"0","1","2","3","4","5","6","7","8","9">>

RECURSIVE StrNat(_)
StrNat(n) == IF n < 10 THEN <<DigitChars[n + 1]>>
             ELSE StrNat(n \div 10) \o <<DigitChars[(n % 10) + 1]>>

Str(n) == IF n < 0 THEN <<"-">> \o StrNat(-n) ELSE StrNat(n)

----------------------------------------------------------------------------
(* Records and what is printed *)

\* A parsed record, the tuple (name, count, url) with url = base + href.
Rec(name, count, href) == [name |-> name, count |-> count, url |-> _base \o href]

None == <<>>
Some(x) == <<x>>

\* An entry of standard output or of the output file.
LogMsg(tag, n, text) == [kind |-> "log", tag |-> tag, n |-> n, text |-> text]
Chunk(tag, text) == [kind |-> "out", tag |-> tag, n |-> 0, text |-> text]

\* Fetcher.vprint: print msg when self.verbosity >= level.
vprint(out, msg, level) == IF verbosity >= level THEN Append(out, msg) ELSE out

----------------------------------------------------------------------------
(* parse_args: the two store_const options share dest 'verbosity' *)

RECURSIVE VerbosityFrom(_, _)
VerbosityFrom(flags, current) ==
    IF flags = <<>> THEN current
    ELSE VerbosityFrom(Tail(flags),
                       CASE Head(flags) = "-v" -> 2
                         [] Head(flags) = "-q" -> 0)

parse_args(args) ==
    [output |-> args.output,
     category |-> args.category,
     verbosity |-> VerbosityFrom(args.flags, 1),
     min_works |-> args.min_works,
     file |-> args.file]

----------------------------------------------------------------------------
(* Fetcher.fetch_all: merge, filter, sort *)

\* Mutants of Contains: no membership test at all; a test on name and url only.
ContainsNever(its, f) == FALSE
ContainsByNameUrl(its, f) ==
    \E i \in DOMAIN its : its[i].name = f.name /\ its[i].url = f.url

\* `f in items`: equality of the whole tuple.
Contains(its, f) == \E i \in DOMAIN its : its[i] = f

\* for f in fandoms: if f not in items: items.append(f)
RECURSIVE MergeInto(_, _)
MergeInto(its, fs) ==
    IF fs = <<>> THEN its
    ELSE MergeInto(IF Contains(its, Head(fs)) THEN its ELSE Append(its, Head(fs)),
                   Tail(fs))

\* filter(lambda x: x[1] >= mincount, items)
Filter(its, mincount) == SelectSeq(its, LAMBDA x : x.count >= mincount)

\* Mutant of InsertPos: ties land in front of their equals (an unstable sort).
InsertPosBeforeTies(sorted, x) ==
    Cardinality({i \in DOMAIN sorted : sorted[i].count > x.count}) + 1

\* Where a stable descending sort puts x into an already sorted list: behind
\* every element whose key is >= x's key.
InsertPos(sorted, x) ==
    Cardinality({i \in DOMAIN sorted : sorted[i].count >= x.count}) + 1

InsertAt(s, p, x) == SubSeq(s, 1, p - 1) \o <<x>> \o SubSeq(s, p, Len(s))

\* sorted(..., key=lambda x: x[1], reverse=True): stable, descending by count.
RECURSIVE SortedDesc(_)
SortedDesc(its) ==
    IF its = <<>> THEN <<>>
    ELSE LET front == SortedDesc(SubSeq(its, 1, Len(its) - 1))
             x == its[Len(its)]
         IN InsertAt(front, InsertPos(front, x), x)

FilterSort(its, mincount) == SortedDesc(Filter(its, mincount))

----------------------------------------------------------------------------
(* Fetcher._parse_group: one list item to (name, count, url) *)

\* The whitespace characters that have no escape in a string literal: vertical
\* tab, U+001C to U+001F, U+0085 and U+00A0.
VT == ""
FS == ""
GS == ""
RS == ""
US == ""
NEL == ""
NBSP == " "

\* str.isspace(), as str.strip and str.rsplit use it.
IsSpace(c) == c \in {"\t", "\n", VT, "\f", "\r", FS, GS, RS, US, " ", NEL, NBSP}
IsDigit(c) == \E d \in DOMAIN DigitChars : DigitChars[d] = c
DigitVal(c) == (CHOOSE d \in DOMAIN DigitChars : DigitChars[d] = c) - 1

RECURSIVE lstrip(_)
lstrip(s) == IF s # <<>> /\ IsSpace(Head(s)) THEN lstrip(Tail(s)) ELSE s

RECURSIVE rstrip(_)
rstrip(s) == IF s # <<>> /\ IsSpace(s[Len(s)]) THEN rstrip(SubSeq(s, 1, Len(s) - 1)) ELSE s

\* str.strip()
strip(s) == lstrip(rstrip(s))

\* Start of the last whitespace-free run of a string that does not end in whitespace.
RECURSIVE TokenStart(_, _)
TokenStart(s, i) == IF i > 1 /\ ~IsSpace(s[i - 1]) THEN TokenStart(s, i - 1) ELSE i

\* str.rsplit(maxsplit=1): split at the last run of whitespace; the list has no
\* element for an empty head.
rsplit1(s) ==
    LET t == rstrip(s)
    IN IF t = <<>> THEN <<>>
       ELSE LET k == TokenStart(t, Len(t))
                head == rstrip(SubSeq(t, 1, k - 1))
                token == SubSeq(t, k, Len(t))
            IN IF head = <<>> THEN <<token>> ELSE <<head, token>>

\* s[1:-1]
Inner(s) == SubSeq(s, 2, Len(s) - 1)

\* The whitespace int() drops around a literal: str.isspace() without U+001C
\* to U+001F.
IsIntSpace(c) == IsSpace(c) /\ c \notin {FS, GS, RS, US}

RECURSIVE IntLStrip(_)
IntLStrip(s) == IF s # <<>> /\ IsIntSpace(Head(s)) THEN IntLStrip(Tail(s)) ELSE s

RECURSIVE IntRStrip(_)
IntRStrip(s) ==
    IF s # <<>> /\ IsIntSpace(s[Len(s)]) THEN IntRStrip(SubSeq(s, 1, Len(s) - 1)) ELSE s

IntStrip(s) == IntLStrip(IntRStrip(s))

IsSign(c) == c \in {"+", "-"}

\* The digits and underscores of a literal: a digit first and last, and no two
\* underscores in a row.
IsDigitRun(s) ==
    /\ s # <<>>
    /\ \A i \in DOMAIN s :
           \/ IsDigit(s[i])
           \/ /\ s[i] = "_"
              /\ i > 1 /\ i < Len(s)
              /\ IsDigit(s[i - 1]) /\ IsDigit(s[i + 1])

Unsigned(s) == IF s # <<>> /\ IsSign(Head(s)) THEN Tail(s) ELSE s

\* int(s) accepts s: surrounding whitespace, an optional sign, then digits
\* with single underscores between them.
IsIntLiteral(s) == IsDigitRun(Unsigned(IntStrip(s)))

RECURSIVE DigitsValue(_)
DigitsValue(s) ==
    IF s = <<>> THEN 0
    ELSE IF s[Len(s)] = "_" THEN DigitsValue(SubSeq(s, 1, Len(s) - 1))
    ELSE 10 * DigitsValue(SubSeq(s, 1, Len(s) - 1)) + DigitVal(s[Len(s)])

int(s) ==
    LET t == IntStrip(s)
    IN IF t # <<>> /\ Head(t) = "-" THEN 0 - DigitsValue(Tail(t))
       ELSE DigitsValue(Unsigned(t))

Raise(type, detail) == [type |-> type, detail |-> detail, item |-> None]

\* Lines 58-62 for one <li> child: the record appended, or the exception raised
\* with the text its message carries.
ParseItem(li) ==
    LET text == strip(li.text)
        parts == rsplit1(text)
    IN CASE li.link = "none" -> Raise("AttributeError", <<>>)
         [] li.link = "nohref" -> Raise("KeyError", <<"h", "r", "e", "f">>)
         [] li.link = "ok" /\ Len(parts) < 2 -> Raise("IndexError", <<>>)
         [] li.link = "ok" /\ Len(parts) = 2 /\ ~IsIntLiteral(Inner(strip(parts[2]))) ->
                Raise("ValueError", Inner(strip(parts[2])))
         [] OTHER ->
                [type |-> "none", detail |-> <<>>,
                 item |-> Some(Rec(strip(parts[1]), int(Inner(strip(parts[2]))), li.href))]

----------------------------------------------------------------------------
(* The formatters: what each writes to fp, one element per fp.write call *)

Max(a, b) == IF a >= b THEN a ELSE b

Repeat(c, n) == [i \in 1..n |-> c]

\* Mutant of ljust: no padding.
ljustNoPad(s, width) == s

\* str.ljust(width): pad with spaces on the right, never truncate.
ljust(s, width) == IF Len(s) >= width THEN s ELSE s \o Repeat(" ", width - Len(s))

\* output_text: "{} {} - {}\n".format(f[0], f[1], f[2]) per record.
TextLine(f) == f.name \o <<" ">> \o Str(f.count) \o <<" ", "-", " ">> \o f.url \o <<"\n">>

output_text(fs) == [i \in DOMAIN fs |-> Chunk("record", TextLine(fs[i]))]

headers == << <<"c","o","u","n","t">>, <<"n","a","m","e">>, <<"U","R","L">> >>

\* output_table's `sizes`: the header lengths, raised to the widest cell.
RECURSIVE Sizes(_, _)
Sizes(fs, sizes) ==
    IF fs = <<>> THEN sizes
    ELSE Sizes(Tail(fs),
               << Max(sizes[1], Len(Str(Head(fs).count))),
                  Max(sizes[2], Len(Head(fs).name)),
                  Max(sizes[3], Len(Head(fs).url)) >>)

InitialSizes == [i \in 1..3 |-> Len(headers[i])]

HeaderLine(sizes) ==
    ljust(headers[1], sizes[1]) \o <<" ", "|", " ">> \o ljust(headers[2], sizes[2])
        \o <<" ", "|", " ">> \o headers[3] \o <<"\n">>

RuleLine(sizes) ==
    Repeat("-", sizes[1]) \o <<"-", "|", "-">> \o Repeat("-", sizes[2])
        \o <<"-", "|", "-">> \o Repeat("-", sizes[3]) \o <<"\n">>

DataLine(f, sizes) ==
    ljust(Str(f.count), sizes[1]) \o <<" ", "|", " ">> \o ljust(f.name, sizes[2])
        \o <<" ", "|", " ">> \o f.url \o <<"\n">>

output_table(fs) ==
    LET sizes == Sizes(fs, InitialSizes)
    IN << Chunk("header", HeaderLine(sizes)), Chunk("rule", RuleLine(sizes)) >>
           \o [i \in DOMAIN fs |-> Chunk("record", DataLine(fs[i], sizes))]

\* convert_json: the list of {"count", "name", "url"} dicts, keys in that order.
convert_json(fs) ==
    [i \in DOMAIN fs |->
        << <<"count", fs[i].count>>, <<"name", fs[i].name>>, <<"url", fs[i].url>> >>]

HexChars == DigitChars \o <<"a", "b", "c", "d", "e", "f">>

\* The characters U+0001 to U+001F and U+007F to U+00FF, in code point order:
\* the characters of a string literal that lie outside " " to "~".
ControlChars ==
    << "", "", "", "", "", "", "", "", "\t", "\n", "", "\f", "\r", "", "", "",
       "", "", "", "", "", "", "", "", "", "", "", "", "", "", "" >>

HighChars ==
    << "", "", "", "", "", "", "", "", "", "", "", "", "", "", "", "",
       "", "", "", "", "", "", "", "", "", "", "", "", "", "", "", "",
       "", " ", "¡", "¢", "£", "¤", "¥", "¦", "§", "¨", "©", "ª", "«", "¬", "­", "®",
       "¯", "°", "±", "²", "³", "´", "µ", "¶", "·", "¸", "¹", "º", "»", "¼", "½", "¾",
       "¿", "À", "Á", "Â", "Ã", "Ä", "Å", "Æ", "Ç", "È", "É", "Ê", "Ë", "Ì", "Í", "Î",
       "Ï", "Ð", "Ñ", "Ò", "Ó", "Ô", "Õ", "Ö", "×", "Ø", "Ù", "Ú", "Û", "Ü", "Ý", "Þ",
       "ß", "à", "á", "â", "ã", "ä", "å", "æ", "ç", "è", "é", "ê", "ë", "ì", "í", "î",
       "ï", "ð", "ñ", "ò", "ó", "ô", "õ", "ö", "÷", "ø", "ù", "ú", "û", "ü", "ý", "þ",
       "ÿ" >>

BS == ControlChars[8]

\* The characters json.dump writes as \uXXXX.
LongEscaped ==
    (Range(ControlChars) \cup Range(HighChars)) \ {"\n", "\r", "\t", "\f", BS}

\* ord(c) of a character outside " " to "~".
CodePoint(c) ==
    IF \E n \in DOMAIN ControlChars : ControlChars[n] = c
    THEN CHOOSE n \in DOMAIN ControlChars : ControlChars[n] = c
    ELSE 126 + (CHOOSE n \in DOMAIN HighChars : HighChars[n] = c)

\* json's ensure_ascii escaping of one character: the short escapes, \uXXXX for
\* every other character outside " " to "~", and the character itself otherwise.
JsonEscape(c) ==
    CASE c = "\"" -> <<"\\", "\"">>
      [] c = "\\" -> <<"\\", "\\">>
      [] c = "\n" -> <<"\\", "n">>
      [] c = "\r" -> <<"\\", "r">>
      [] c = "\t" -> <<"\\", "t">>
      [] c = "\f" -> <<"\\", "f">>
      [] c = BS -> <<"\\", "b">>
      [] c \in LongEscaped ->
             <<"\\", "u", "0", "0", HexChars[(CodePoint(c) \div 16) + 1],
               HexChars[(CodePoint(c) % 16) + 1]>>
      [] OTHER -> <<c>>

RECURSIVE JsonChars(_)
JsonChars(s) == IF s = <<>> THEN <<>> ELSE JsonEscape(Head(s)) \o JsonChars(Tail(s))

JsonString(s) == <<"\"">> \o JsonChars(s) \o <<"\"">>

KeyChars(k) ==
    CASE k = "count" -> <<"c", "o", "u", "n", "t">>
      [] k = "name" -> <<"n", "a", "m", "e">>
      [] k = "url" -> <<"u", "r", "l">>

JsonValue(v, isInt) == IF isInt THEN Str(v) ELSE JsonString(v)

\* The chunks json.dump's encoder yields for one dict, between its neighbours:
\* itemSep before each key after the first, dictOpen / dictClose inside the braces.
JsonDict(d, dictOpen, itemSep, dictClose) ==
    << Chunk("record", <<"{">>) >>
      \o (IF dictOpen = <<>> THEN <<>> ELSE << Chunk("record", dictOpen) >>)
      \o << Chunk("record", JsonString(KeyChars(d[1][1]))), Chunk("record", <<":", " ">>),
            Chunk("record", JsonValue(d[1][2], TRUE)),
            Chunk("record", itemSep),
            Chunk("record", JsonString(KeyChars(d[2][1]))), Chunk("record", <<":", " ">>),
            Chunk("record", JsonValue(d[2][2], FALSE)),
            Chunk("record", itemSep),
            Chunk("record", JsonString(KeyChars(d[3][1]))), Chunk("record", <<":", " ">>),
            Chunk("record", JsonValue(d[3][2], FALSE)) >>
      \o (IF dictClose = <<>> THEN <<>> ELSE << Chunk("record", dictClose) >>)
      \o << Chunk("record", <<"}">>) >>

RECURSIVE JsonDicts(_, _, _, _, _)
JsonDicts(ds, listSep, dictOpen, itemSep, dictClose) ==
    IF ds = <<>> THEN <<>>
    ELSE JsonDict(Head(ds), dictOpen, itemSep, dictClose)
           \o (IF Tail(ds) = <<>> THEN <<>> ELSE << Chunk("frame", listSep) >>)
           \o JsonDicts(Tail(ds), listSep, dictOpen, itemSep, dictClose)

\* output_json: json.dump(convert_json(fandoms), fp, indent=2), one element per
\* fp.write of the encoder's chunks.
output_json(fs) ==
    IF fs = <<>> THEN << Chunk("frame", <<"[", "]">>) >>
    ELSE << Chunk("frame", <<"[", "\n", " ", " ">>) >>
           \o JsonDicts(convert_json(fs), <<",", "\n", " ", " ">>,
                        <<"\n", " ", " ", " ", " ">>, <<",", "\n", " ", " ", " ", " ">>,
                        <<"\n", " ", " ">>)
           \o << Chunk("frame", <<"\n">>), Chunk("frame", <<"]">>) >>

\* output_json_compact: json.dump(convert_json(fandoms), fp, indent=None).
output_json_compact(fs) ==
    IF fs = <<>> THEN << Chunk("frame", <<"[", "]">>) >>
    ELSE << Chunk("frame", <<"[">>) >>
           \o JsonDicts(convert_json(fs), <<",", " ">>, <<>>, <<",", " ">>, <<>>)
           \o << Chunk("frame", <<"]">>) >>

\* One mapping of the block-style document: "key: value" lines, the first
\* behind the "- " of its sequence entry, the others indented by two.
YamlEntry(d) ==
    << Chunk("record", <<"-">>), Chunk("record", <<" ">>),
       Chunk("record", KeyChars(d[1][1])), Chunk("record", <<":">>),
       Chunk("record", <<" ">>), Chunk("record", Str(d[1][2])),
       Chunk("record", <<"\n">>), Chunk("record", <<" ", " ">>),
       Chunk("record", KeyChars(d[2][1])), Chunk("record", <<":">>),
       Chunk("record", <<" ">>), Chunk("record", d[2][2]),
       Chunk("record", <<"\n">>), Chunk("record", <<" ", " ">>),
       Chunk("record", KeyChars(d[3][1])), Chunk("record", <<":">>),
       Chunk("record", <<" ">>), Chunk("record", d[3][2]),
       Chunk("frame", <<"\n">>) >>

RECURSIVE YamlEntries(_)
YamlEntries(ds) == IF ds = <<>> THEN <<>> ELSE YamlEntry(Head(ds)) \o YamlEntries(Tail(ds))

\* output_yaml: ruamel.yaml.dump(convert_json(fandoms), stream=fp,
\* default_flow_style=False), for names and urls that are plain one-word scalars;
\* one element per write of the emitter.
output_yaml(fs) ==
    IF fs = <<>>
    THEN << Chunk("frame", <<"[">>), Chunk("frame", <<"]">>), Chunk("frame", <<"\n">>) >>
    ELSE YamlEntries(convert_json(fs))

\* formatters[flags.output](fandoms, fp)
formatters(output, fs) ==
    CASE output = "text" -> output_text(fs)
      [] output = "table" -> output_table(fs)
      [] output = "json" -> output_json(fs)
      [] output = "json-compact" -> output_json_compact(fs)
      [] output = "yaml" -> output_yaml(fs)

Formats == {"text", "table", "json", "json-compact", "yaml"}

----------------------------------------------------------------------------
(* Inputs: command lines and served pages *)

\* Records the pages are built from: two that differ only in count, two that
\* tie on count.
PageRecords ==
    { Rec(<<"X">>, 10, <<"/", "1">>),
      Rec(<<"X">>, 5, <<"/", "1">>),
      Rec(<<"Y">>, 5, <<"/", "2">>) }

PageLists == SeqsUpTo(PageRecords, MaxPage)

\* The categories whose pages vary; every other page is empty.
VariedCategories == {"anime", "books"}

Webs ==
    { [g \in GroupNames |->
          IF g = _group_names("anime") THEN a
          ELSE IF g = _group_names("books") THEN b
          ELSE <<>>] : a \in PageLists, b \in PageLists }

\* Two fixed sites for the runs that vary the command line: the end-to-end
\* example (two categories sharing one record), and a site with an empty page
\* and a page that needs filtering and reordering and holds a tie. The pages
\* of the other categories are empty.
ExampleWeb ==
    [g \in GroupNames |->
        IF g = _group_names("anime")
        THEN << Rec(<<"X">>, 10, <<"/", "1">>), Rec(<<"Y">>, 5, <<"/", "2">>) >>
        ELSE IF g = _group_names("books")
        THEN << Rec(<<"Y">>, 5, <<"/", "2">>), Rec(<<"Z">>, 1, <<"/", "3">>) >>
        ELSE <<>>]

SampleWebs ==
    { ExampleWeb,
      [g \in GroupNames |->
          IF g = _group_names("books")
          THEN << Rec(<<"Z">>, 1, <<"/", "3">>), Rec(<<"X">>, 5, <<"/", "1">>),
                  Rec(<<"Y">>, 5, <<"/", "2">>), Rec(<<"X">>, 10, <<"/", "1">>) >>
          ELSE <<>>] }

FlagChoices == SeqsUpTo({"-q", "-v"}, MaxFlags)

\* action='append': None when --category is absent, else a non-empty list of
\* choices, repeats allowed.
CategoryChoices == SeqsUpTo(Categories, MaxCats)

\* The --category values of the runs that vary the other options.
FewCategoryChoices == {None, <<"anime">>, <<"anime", "books">>}

MinWorksChoices == {0, 2, 6}

FileChoices == {None, Some("out.txt")}

\* What the --file target holds before the run.
OldContent == << [kind |-> "old", tag |-> "old", n |-> 0, text |-> <<"o", "l", "d">>] >>

FetchErrors == {"ConnectionError", "HTTPError", "ParseError"}

InitMainWith(a, w) ==
    /\ argv = a
    /\ web = w
    /\ pc = "start"
    /\ verbosity = 1
    /\ groups = <<>>
    /\ idx = 0
    /\ gets = <<>>
    /\ items = <<>>
    /\ fandoms = None
    /\ failedAt = 0
    /\ fp = "none"
    /\ fileState = "unopened"
    /\ fileContent = OldContent
    /\ stdout = <<>>
    /\ written = 0
    /\ exit = "none"

NoError == [type |-> "none", detail |-> <<>>]

InitParseIdle ==
    /\ group = <<>>
    /\ child = 0
    /\ parsed = <<>>
    /\ perr = NoError
    /\ ppc = "idle"

\* Runs that vary the options of the command line over two fixed sites.
InitArgs ==
    \E fl \in FlagChoices, cat \in FewCategoryChoices, mw \in MinWorksChoices,
       fi \in FileChoices, o \in Formats, w \in SampleWebs :
        InitMainWith([flags |-> fl, category |-> cat, min_works |-> mw,
                      file |-> fi, output |-> o], w)

\* Runs that vary the --category list over all the choices.
InitCats ==
    \E fl \in {<<>>, <<"-q">>}, cat \in CategoryChoices :
        InitMainWith([flags |-> fl, category |-> cat, min_works |-> 0,
                      file |-> None, output |-> "text"], ExampleWeb)

\* Runs that vary the served pages under a plain command line.
InitPages ==
    \E cat \in SeqsUpTo(VariedCategories, MaxMerged) \ {None}, mw \in MinWorksChoices,
       w \in Webs :
        InitMainWith([flags |-> <<>>, category |-> cat, min_works |-> mw,
                      file |-> None, output |-> "text"], w)

\* A site whose names hold characters json.dump escapes.
EscapeWeb ==
    [g \in GroupNames |->
        IF g = _group_names("anime")
        THEN << Rec(<<"P", "o", "k", "é", "m", "o", "n">>, 4, <<"/", "p">>),
                Rec(<<"A", "\"", "B", NBSP, "C">>, 2, <<"/", "a">>) >>
        ELSE <<>>]

\* Runs that write names with escaped characters as JSON.
InitEscapes ==
    \E fl \in {<<>>, <<"-q">>}, fi \in FileChoices, o \in {"json", "json-compact"} :
        InitMainWith([flags |-> fl, category |-> <<"anime">>, min_works |-> 0,
                      file |-> fi, output |-> o], EscapeWeb)

Init == (InitArgs \/ InitCats \/ InitPages \/ InitEscapes) /\ InitParseIdle

----------------------------------------------------------------------------
(* main *)

flags == parse_args(argv)

\* main, lines 174-183: parse the arguments, build the Fetcher and the groups.
ParseArgs ==
    /\ pc = "start"
    /\ verbosity' = flags.verbosity
    /\ groups' = LET categories == IF flags.category = None THEN CategoryOrder
                                   ELSE flags.category
                 IN [i \in DOMAIN categories |-> _group_names(categories[i])]
    /\ pc' = "fetch"
    /\ UNCHANGED <<argv, web, idx, gets, items, fandoms, failedAt, fp, fileState,
                   fileContent, stdout, written, exit>>
    /\ UNCHANGED parseVars

\* One iteration of fetch_all's loop whose _fetch_fandoms returns: the GET, the
\* parse, the merge into items and the report of dropped duplicates.
FetchOk ==
    /\ pc = "fetch"
    /\ idx < Len(groups)
    /\ LET url == Url(groups[idx + 1])
           fs == web[groups[idx + 1]]
           out1 == vprint(stdout, LogMsg("Fetching fandoms from", 0, url), 1)
           out2 == vprint(out1, LogMsg("Fetched fandoms from", Len(fs), url), 2)
           expected == Len(items) + Len(fs)
           merged == MergeInto(items, fs)
           actual == Len(merged)
       IN /\ gets' = Append(gets, url)
          /\ items' = merged
          /\ stdout' = IF expected # actual
                       THEN vprint(out2, LogMsg("Merging lists resulted in dropping duplicates",
                                                expected - actual, <<>>), 2)
                       ELSE out2
    /\ idx' = idx + 1
    /\ UNCHANGED <<argv, web, pc, verbosity, groups, fandoms, failedAt, fp, fileState,
                   fileContent, written, exit>>
    /\ UNCHANGED parseVars

\* Mutant of FetchFail: main reports the failure and returns 0.
FetchFailReturnsZero ==
    /\ pc = "fetch"
    /\ idx < Len(groups)
    /\ gets' = Append(gets, Url(groups[idx + 1]))
    /\ stdout' = Append(stdout, LogMsg("Failed to fetch fandoms", 0, <<"HTTPError">>))
    /\ failedAt' = idx + 1
    /\ exit' = "0"
    /\ pc' = "done"
    /\ UNCHANGED <<argv, web, verbosity, groups, idx, items, fandoms, fp, fileState,
                   fileContent, written>>
    /\ UNCHANGED parseVars

\* Mutant of FetchFail: the failed GET is issued again instead of raising.
FetchFailRetries ==
    /\ pc = "fetch"
    /\ idx < Len(groups)
    /\ Len(gets) < Len(groups) + 1
    /\ gets' = Append(gets, Url(groups[idx + 1]))
    /\ UNCHANGED <<argv, web, pc, verbosity, groups, idx, items, fandoms, failedAt, fp,
                   fileState, fileContent, stdout, written, exit>>
    /\ UNCHANGED parseVars

\* An iteration whose _fetch_fandoms raises (requests.get, raise_for_status or
\* the parse): the exception leaves fetch_all, main prints it and returns 1.
FetchFail ==
    /\ pc = "fetch"
    /\ idx < Len(groups)
    /\ \E cause \in FetchErrors :
        LET url == Url(groups[idx + 1])
            out1 == vprint(stdout, LogMsg("Fetching fandoms from", 0, url), 1)
        IN /\ gets' = Append(gets, url)
           /\ stdout' = Append(out1, LogMsg("Failed to fetch fandoms", 0, <<cause>>))
    /\ failedAt' = idx + 1
    /\ exit' = "1"
    /\ pc' = "done"
    /\ UNCHANGED <<argv, web, verbosity, groups, idx, items, fandoms, fp, fileState,
                   fileContent, written>>
    /\ UNCHANGED parseVars

\* fetch_all after its loop: filter, sort, report, return to main.
FetchReturn ==
    /\ pc = "fetch"
    /\ idx = Len(groups)
    /\ LET expected == Len(items)
           results == FilterSort(items, flags.min_works)
           actual == Len(results)
       IN /\ fandoms' = Some(results)
          /\ stdout' = IF expected # actual
                       THEN vprint(stdout, LogMsg("Filtered fandoms out for having too few works",
                                                  expected - actual, <<>>), 2)
                       ELSE stdout
    /\ pc' = "open"
    /\ UNCHANGED <<argv, web, verbosity, groups, idx, gets, items, failedAt, fp,
                   fileState, fileContent, written, exit>>
    /\ UNCHANGED parseVars

\* fp = sys.stdout, and --file is absent.
UseStdout ==
    /\ pc = "open"
    /\ flags.file = None
    /\ fp' = "stdout"
    /\ pc' = "format"
    /\ UNCHANGED <<argv, web, verbosity, groups, idx, gets, items, fandoms, failedAt,
                   fileState, fileContent, stdout, written, exit>>
    /\ UNCHANGED parseVars

\* open(flags.file, "w") succeeds: the file is truncated.
OpenOk ==
    /\ pc = "open"
    /\ flags.file # None
    /\ fp' = "file"
    /\ fileState' = "open"
    /\ fileContent' = <<>>
    /\ pc' = "format"
    /\ UNCHANGED <<argv, web, verbosity, groups, idx, gets, items, fandoms, failedAt,
                   stdout, written, exit>>
    /\ UNCHANGED parseVars

\* open(flags.file, "w") raises: main prints it and returns 1.
OpenFail ==
    /\ pc = "open"
    /\ flags.file # None
    /\ stdout' = Append(stdout, LogMsg("Could not open file for writing", 0, flags.file))
    /\ exit' = "1"
    /\ pc' = "done"
    /\ UNCHANGED <<argv, web, verbosity, groups, idx, gets, items, fandoms, failedAt,
                   fp, fileState, fileContent, written>>
    /\ UNCHANGED parseVars

chunks == formatters(flags.output, fandoms[1])

\* One fp.write of the formatter succeeds.
WriteChunk ==
    /\ pc = "format"
    /\ written < Len(chunks)
    /\ IF fp = "stdout"
       THEN stdout' = Append(stdout, chunks[written + 1]) /\ UNCHANGED fileContent
       ELSE fileContent' = Append(fileContent, chunks[written + 1]) /\ UNCHANGED stdout
    /\ written' = written + 1
    /\ UNCHANGED <<argv, web, pc, verbosity, groups, idx, gets, items, fandoms, failedAt,
                   fp, fileState, exit>>
    /\ UNCHANGED parseVars

\* One fp.write of the formatter raises: nothing in main catches it.
WriteFail ==
    /\ pc = "format"
    /\ written < Len(chunks)
    /\ exit' = "raised"
    /\ pc' = "done"
    /\ UNCHANGED <<argv, web, verbosity, groups, idx, gets, items, fandoms, failedAt,
                   fp, fileState, fileContent, stdout, written>>
    /\ UNCHANGED parseVars

\* The formatter returned: close fp unless it is sys.stdout, return 0.
Finish ==
    /\ pc = "format"
    /\ written = Len(chunks)
    /\ fileState' = IF fp # "stdout" THEN "closed" ELSE fileState
    /\ exit' = "0"
    /\ pc' = "done"
    /\ UNCHANGED <<argv, web, verbosity, groups, idx, gets, items, fandoms, failedAt,
                   fp, fileContent, stdout, written>>
    /\ UNCHANGED parseVars

Next ==
    \/ ParseArgs
    \/ FetchOk
    \/ FetchFail
    \/ FetchReturn
    \/ UseStdout
    \/ OpenOk
    \/ OpenFail
    \/ WriteChunk
    \/ WriteFail
    \/ Finish

Spec == Init /\ [][Next]_vars

----------------------------------------------------------------------------
(* Properties of the run *)

Returned == fandoms # None
Result == fandoms[1]
NoDup(s) == \A i, j \in DOMAIN s : s[i] = s[j] => i = j
WithCount(s, c) == SelectSeq(s, LAMBDA x : x.count = c)
Counts(s) == {s[i].count : i \in DOMAIN s}

\* C1: the list fetch_all returns holds exactly the merged records with
\* count >= mincount, is ordered by count descending, and keeps records of equal
\* count in the relative order they had in the merged list.
C1_FilterSortStable ==
    Returned =>
        /\ \A i, j \in DOMAIN Result : i < j => Result[i].count >= Result[j].count
        /\ \A c \in Counts(items) \cup Counts(Result) :
               WithCount(Result, c) =
                   IF c >= argv.min_works THEN WithCount(items, c) ELSE <<>>

\* A returned list with a tie, a filtered-out record and an order that differs
\* from the merged order.
C1_Witness ==
    /\ Returned
    /\ Len(Result) < Len(items)
    /\ \E i, j \in DOMAIN Result : i < j /\ Result[i].count = Result[j].count
    /\ Result # Filter(items, argv.min_works)

FirstList == web[groups[1]]
SecondList == web[groups[2]]
TwoMerged == Len(groups) >= 2 /\ idx = 2

\* C2 as stated: merging A then B leaves len(A) + len(B) - |A n B| records.
C2_Original ==
    TwoMerged =>
        Len(items) = Len(FirstList) + Len(SecondList)
                       - Cardinality(Range(FirstList) \cap Range(SecondList))

\* C2 amended: merging A then B leaves d(A) + d(B) - |A n B| records, d(L) the
\* number of distinct records of L; this is len(A) + len(B) - |A n B| when neither
\* list repeats a record.
C2_MergeLength ==
    TwoMerged =>
        /\ Len(items) = Cardinality(Range(FirstList)) + Cardinality(Range(SecondList))
                          - Cardinality(Range(FirstList) \cap Range(SecondList))
        /\ (NoDup(FirstList) /\ NoDup(SecondList)) =>
               Len(items) = Len(FirstList) + Len(SecondList)
                              - Cardinality(Range(FirstList) \cap Range(SecondList))

\* Two merged lists that overlap, each with a record of its own.
C2_Witness ==
    /\ TwoMerged
    /\ NoDup(FirstList) /\ NoDup(SecondList)
    /\ Range(FirstList) \cap Range(SecondList) # {}
    /\ Range(FirstList) \ Range(SecondList) # {}
    /\ Range(SecondList) \ Range(FirstList) # {}

FetchedSoFar == UNION {Range(web[groups[i]]) : i \in 1..idx}

\* C3: the merged list and the returned list never hold the same triple twice,
\* and every fetched record that passes the filter is in the returned list, so
\* records that differ in any field are both kept.
C3_UniqueByTriple ==
    /\ NoDup(items)
    /\ Range(items) = FetchedSoFar
    /\ Returned =>
           /\ NoDup(Result)
           /\ Range(Result) = {r \in FetchedSoFar : r.count >= argv.min_works}

\* A returned list holding two records with the same name and url and different counts.
C3_Witness ==
    /\ Returned
    /\ \E i, j \in DOMAIN Result :
           /\ Result[i].name = Result[j].name
           /\ Result[i].url = Result[j].url
           /\ Result[i].count # Result[j].count

RecordsIn(s) == Cardinality({i \in DOMAIN s : s[i].kind = "out" /\ s[i].tag = "record"})
OutputIn(s) == Cardinality({i \in DOMAIN s : s[i].kind = "out"})

\* C4: nothing reaches the output sink, and the --file target is not opened or
\* truncated, before fetch_all has returned; and a run that fails has emitted no
\* record to the sink.
C4_AtomicOutput ==
    /\ pc \in {"start", "fetch"} =>
           /\ OutputIn(stdout) = 0
           /\ fileState = "unopened"
           /\ fileContent = OldContent
    /\ (pc = "done" /\ exit # "0") =>
           RecordsIn(stdout) + RecordsIn(fileContent) = 0

OpenFailed == pc = "done" /\ Returned /\ fp = "none"
Sink == IF fp = "stdout" THEN stdout ELSE fileContent

\* C5: main returns 1 when the fetch of any category raised and when the --file
\* path could not be opened, and returns 0 only after every category was fetched
\* and the formatter wrote the whole final list.
C5_ExitCodes ==
    /\ failedAt # 0 => (pc = "done" /\ exit = "1")
    /\ OpenFailed => exit = "1"
    /\ exit = "0" =>
           /\ failedAt = 0
           /\ idx = Len(groups) /\ Len(gets) = Len(groups)
           /\ Returned
           /\ Result = FilterSort(items, argv.min_works)
           /\ written = Len(chunks)
           /\ Len(Sink) >= Len(chunks)
           /\ SubSeq(Sink, Len(Sink) - Len(chunks) + 1, Len(Sink)) = chunks

\* A run that returned 1 because a category between the first and the last failed.
C5_Witness ==
    /\ pc = "done" /\ exit = "1"
    /\ failedAt > 1 /\ failedAt < Len(groups)

\* C7: verbosity is 0 whenever --quiet and --verbose are both given (in either
\* order), 2 with only --verbose, 1 with neither.
C7_QuietOverridesVerbose ==
    pc # "start" =>
        LET given == Range(argv.flags)
        IN /\ ({"-q", "-v"} \subseteq given) => verbosity = 0
           /\ (given = {"-v"}) => verbosity = 2
           /\ (given = {}) => verbosity = 1

\* C8: no run of main ends with the output file it opened still open.
C8_HandleReleased == pc = "done" => fileState # "open"

\* C10: the GETs issued are, in order, those of the leading entries of the
\* category list, one per loop iteration, so no url is fetched twice unless the
\* list names its category twice; after a fetch raised at position k exactly k
\* GETs were issued, nothing was returned and the run is over.
C10_SequentialNoRetry ==
    /\ Len(gets) <= Len(groups)
    /\ NoDup(groups) => NoDup(gets)
    /\ gets = [i \in 1..Len(gets) |-> Url(groups[i])]
    /\ Len(gets) = idx + (IF failedAt # 0 THEN 1 ELSE 0)
    /\ failedAt # 0 => (Len(gets) = failedAt /\ fandoms = None /\ pc = "done")
    /\ Returned => Len(gets) = Len(groups)

\* The first fetch raised with later categories still unfetched.
C10_Witness ==
    /\ failedAt = 1
    /\ Len(groups) >= 2
    /\ Len(gets) = 1

----------------------------------------------------------------------------
(* _parse_group as a loop over the children of one group container *)

Alphabet == {"F", " ", "(", ")", "4", "-"}
TextChoices == SeqsUpTo(Alphabet, MaxText)

Li(text, link) == [tag |-> "li", link |-> link, href |-> <<"/", "m">>, text |-> text]
GoodItem == Li(<<"F", " ", "(", "4", ")">>, "ok")
NoLinkItem == Li(<<"F", " ", "(", "4", ")">>, "none")
NoHrefItem == Li(<<"F", " ", "(", "4", ")">>, "nohref")
\* A child that is not a Tag (text between the items) and a Tag that is not <li>.
TextNode == [tag |-> "NavigableString", link |-> "none", href |-> <<>>, text |-> <<"\n">>]
OtherTag == [tag |-> "div", link |-> "none", href |-> <<>>, text |-> <<>>]

\* Groups: any children around items whose text ranges over TextChoices.
OtherChildren == {GoodItem, NoLinkItem, NoHrefItem, TextNode, OtherTag}
Probe == [tag |-> "probe", link |-> "ok", href |-> <<>>, text |-> <<>>]
Shapes == SeqsUpTo({Probe} \cup OtherChildren, MaxChildren)
Fill(shape, t) == [i \in DOMAIN shape |-> IF shape[i] = Probe THEN Li(t, "ok") ELSE shape[i]]

InitMainIdle ==
    InitMainWith([flags |-> <<>>, category |-> None, min_works |-> 0,
                  file |-> None, output |-> "text"],
                 [g \in GroupNames |-> <<>>])

InitParse ==
    /\ InitMainIdle
    /\ \E shape \in Shapes, t \in TextChoices : group = Fill(shape, t)
    /\ child = 0
    /\ parsed = <<>>
    /\ perr = NoError
    /\ ppc = "loop"

IsListItem(c) == c.tag = "li"

\* The loop skips a child that is not an <li> Tag.
ParseSkip ==
    /\ ppc = "loop"
    /\ child < Len(group)
    /\ ~IsListItem(group[child + 1])
    /\ child' = child + 1
    /\ UNCHANGED <<group, parsed, perr, ppc>>
    /\ UNCHANGED mainVars

\* The loop appends the record of an <li> child.
ParseAppend ==
    /\ ppc = "loop"
    /\ child < Len(group)
    /\ IsListItem(group[child + 1])
    /\ ParseItem(group[child + 1]).type = "none"
    /\ parsed' = Append(parsed, ParseItem(group[child + 1]).item[1])
    /\ child' = child + 1
    /\ UNCHANGED <<group, perr, ppc>>
    /\ UNCHANGED mainVars

\* An <li> child raises: the exception leaves _parse_group and its items are lost.
ParseRaise ==
    /\ ppc = "loop"
    /\ child < Len(group)
    /\ IsListItem(group[child + 1])
    /\ ParseItem(group[child + 1]).type # "none"
    /\ perr' = [type |-> ParseItem(group[child + 1]).type,
                detail |-> ParseItem(group[child + 1]).detail]
    /\ ppc' = "raised"
    /\ UNCHANGED <<group, child, parsed>>
    /\ UNCHANGED mainVars

\* return items
ParseReturn ==
    /\ ppc = "loop"
    /\ child = Len(group)
    /\ ppc' = "returned"
    /\ UNCHANGED <<group, child, parsed, perr>>
    /\ UNCHANGED mainVars

NextParse == ParseSkip \/ ParseAppend \/ ParseRaise \/ ParseReturn

SpecParse == InitParse /\ [][NextParse]_vars

\* The stripped text ends in a whitespace-separated token "(" digits ")".
HasCountSuffix(text) ==
    LET t == strip(text)
    IN \E k \in DOMAIN t :
           /\ IsSpace(t[k])
           /\ k + 3 <= Len(t)
           /\ t[k + 1] = "("
           /\ t[Len(t)] = ")"
           /\ \A i \in (k + 2)..(Len(t) - 1) : IsDigit(t[i])

Malformed(c) == IsListItem(c) /\ c.link = "ok" /\ ~HasCountSuffix(c.text)

\* C6: a list item whose text lacks the "(digits)" suffix never yields a Record,
\* and the error it raises carries the item's text.
C6_MalformedRejected ==
    /\ \A i \in 1..child : ~Malformed(group[i])
    /\ (ppc = "raised" /\ Malformed(group[child + 1])) =>
           perr.detail = strip(group[child + 1].text)

----------------------------------------------------------------------------
(* main with --output table *)

\* Records of the served page: counts, names and urls narrower and wider than
\* the headers and than each other.
TableRecords ==
    { Rec(<<"F", "o", "o">>, 5, <<"/", "1">>),
      Rec(<<"B", "a", "r", "b", "a", "z">>, 120, <<"/", "t", "a", "g", "s", "/", "2">>),
      Rec(<<"Q">>, 1234567, <<"/", "q">>),
      Rec(<<"L", "o", "n", "g", "n", "a", "m", "e">>, 42,
          <<"/", "t", "a", "g", "s", "/", "l", "o", "n", "g">>) }

TableLists == SeqsUpTo(TableRecords, MaxRows)

\* Runs of main with --output table on one category whose page varies.
InitTable ==
    /\ \E page \in TableLists, fl \in {<<>>, <<"-q">>}, fi \in FileChoices :
           InitMainWith([flags |-> fl, category |-> <<"anime">>, min_works |-> 0,
                         file |-> fi, output |-> "table"],
                        [g \in GroupNames |->
                            IF g = _group_names("anime") THEN page ELSE <<>>])
    /\ InitParseIdle

SpecTable == InitTable /\ [][Next]_vars

\* The rows written so far, and the widths of the three columns of a row, read
\* off the positions of its two column separators.
RowsOut == SelectSeq(Sink, LAMBDA e : e.kind = "out")
Bars(line) == {i \in DOMAIN line : line[i] = "|"}
MinOf(S) == CHOOSE x \in S : \A y \in S : x <= y
MaxOf(S) == CHOOSE x \in S : \A y \in S : x >= y
ColWidths(line) ==
    LET b1 == MinOf(Bars(line))
        b2 == MaxOf(Bars(line))
    IN << b1 - 2, b2 - b1 - 3, Len(line) - b2 - 2 >>

Cell(f, c) == CASE c = 1 -> Str(f.count) [] c = 2 -> f.name [] c = 3 -> f.url
Needed(fs, c) == MaxOf({Len(headers[c])} \cup {Len(Cell(fs[i], c)) : i \in DOMAIN fs})

Formatting == pc \in {"format", "done"} /\ fp # "none" /\ argv.output = "table"

\* C9 as stated: in every row written, each of the three columns is at least as
\* wide as its header and as its widest cell.
C9_Original ==
    Formatting =>
        \A r \in DOMAIN RowsOut : \A c \in 1..3 :
            ColWidths(RowsOut[r].text)[c] >= Needed(Result, c)

\* C9 amended: in every row written the count and name columns have the width of
\* the header or the widest cell, whichever is larger; the URL column has that
\* width in the rule row only, and in the header row and the data rows the URL
\* cell is written at its own length.
C9_ColumnWidths ==
    Formatting =>
        \A r \in DOMAIN RowsOut :
            LET w == ColWidths(RowsOut[r].text)
            IN /\ Cardinality(Bars(RowsOut[r].text)) = 2
               /\ w[1] = Needed(Result, 1)
               /\ w[2] = Needed(Result, 2)
               /\ w[3] = CASE r = 1 -> Len(headers[3])
                           [] r = 2 -> Needed(Result, 3)
                           [] OTHER -> Len(Result[r - 2].url)

\* A whole table written, with cells wider than the headers in each column and
\* data rows whose urls differ in length.
C9_Witness ==
    /\ Formatting
    /\ pc = "done" /\ exit = "0"
    /\ Len(RowsOut) = Len(Result) + 2
    /\ \A c \in 1..3 : Needed(Result, c) > Len(headers[c])
    /\ \E i, j \in DOMAIN Result : Len(Result[i].url) # Len(Result[j].url)

====
